---- MODULE Spec2Model ----
(***************************************************************************)
(* Model of the durable agent execution sketches of artiquare/caa:         *)
(*   state/redis_state.py          StateManager over a Redis key per run   *)
(*   execution/tools.py            CAAToolExecutor.execute                 *)
(*   observability/trace_handler.py ObservableAgent.run_observable         *)
(*   collaboration/human_collab.py CollaborationLayer, approve endpoint    *)
(* Three specifications share the module: SpecStore, SpecExec, SpecAgent.  *)
(***************************************************************************)
EXTENDS Integers, Sequences, FiniteSets, TLC

VARIABLES redis, pc, returned, age, lastSave,
          exPc, exIn, elapsed, exResult, timedOut,
          loopPc, plan, executed, traceStatus, issued, nextId, tasks, responses

storeVars == <<redis, pc, returned, age, lastSave>>
execVars == <<exPc, exIn, elapsed, exResult, timedOut>>
agentVars == <<loopPc, plan, executed, traceStatus, issued, nextId, tasks, responses>>
vars == <<storeVars, execVars, agentVars>>

Nil == [none |-> TRUE]
Nobody == "nobody"
NoKey == <<>>

(***************************************************************************)
(* Bounds of the model.                                                    *)
(***************************************************************************)
MaxSteps == 2
MaxPlanLen == 2
MaxApprovals == 2
MaxDecisions == 2

(***************************************************************************)
(* state/redis_state.py                                                    *)
(***************************************************************************)
TTL_SECONDS == 86400
NoExpiry == -1
TickSeconds == TTL_SECONDS \div 2

AgentIds == {"a1"}
Clients == {"w1", "w2"}
StatusSet == {"success", "failure"}

Key(agent_id) == <<"agent", agent_id, "state">>
Keys == {Key(a) : a \in AgentIds}

\* ExecutionResult records of a history of n steps: step_index is 0-based,
\* every step but the last succeeded.
Histories(n) ==
  IF n = 0 THEN {<<>>}
  ELSE {[j \in 1..n |-> [step_index |-> j - 1,
                         status |-> IF j < n THEN "success" ELSE last]]
          : last \in StatusSet}

AgentState(a, n, h) ==
  [agent_id |-> a, conversation_id |-> "conv", current_step |-> n,
   plan |-> "plan", executed_steps |-> h, context_snapshot |-> "ctx"]

\* The run states a caller builds by executing a plan step after step.
InputStates ==
  UNION {UNION {{AgentState(a, n, h) : h \in Histories(n)} : n \in 0..MaxSteps}
           : a \in AgentIds}

Digit == <<"0", "1", "2", "3", "4", "5", "6", "7", "8", "9">>

RECURSIVE IntToJson(_)
IntToJson(n) ==
  IF n < 10 THEN <<Digit[n + 1]>>
  ELSE IntToJson(n \div 10) \o <<Digit[(n % 10) + 1]>>

DigitValue(ch) == CHOOSE d \in 0..9 : Digit[d + 1] = ch

RECURSIVE JsonToInt(_)
JsonToInt(ds) ==
  IF Len(ds) = 1 THEN DigitValue(ds[1])
  ELSE 10 * JsonToInt(SubSeq(ds, 1, Len(ds) - 1)) + DigitValue(ds[Len(ds)])

\* state.model_dump_json(): the JSON document of an AgentState; numbers are
\* written as decimal digits, the list as a JSON array of objects.
ModelDumpJson(s) ==
  [agent_id |-> s.agent_id,
   conversation_id |-> s.conversation_id,
   current_step |-> IntToJson(s.current_step),
   plan |-> s.plan,
   executed_steps |->
     [j \in 1..Len(s.executed_steps) |->
        [step_index |-> IntToJson(s.executed_steps[j].step_index),
         status |-> s.executed_steps[j].status]],
   context_snapshot |-> s.context_snapshot]

\* AgentState.model_validate_json(data)
ModelValidateJson(d) ==
  [agent_id |-> d.agent_id,
   conversation_id |-> d.conversation_id,
   current_step |-> JsonToInt(d.current_step),
   plan |-> d.plan,
   executed_steps |->
     [j \in 1..Len(d.executed_steps) |->
        [step_index |-> JsonToInt(d.executed_steps[j].step_index),
         status |-> d.executed_steps[j].status]],
   context_snapshot |-> d.context_snapshot]

\* A set that keeps the value of an existing key (SET ... NX).
RedisSetIfAbsent(db, key, value) ==
  IF db[key] = Nil THEN [db EXCEPT ![key] = [value |-> value, ttl |-> NoExpiry]]
  ELSE db

\* redis.set(key, value): overwrites the value and discards any expiry.
RedisSet(db, key, value) ==
  [db EXCEPT ![key] = [value |-> value, ttl |-> NoExpiry]]

\* redis.expire(key, seconds): no effect on a missing key.
RedisExpire(db, key, seconds) ==
  IF db[key] = Nil THEN db ELSE [db EXCEPT ![key].ttl = seconds]

\* redis.get(key)
RedisGet(db, key) == IF db[key] = Nil THEN Nil ELSE db[key].value

\* save_checkpoint as one uninterrupted call: set, then expire.
SaveCheckpointOp(db, s) ==
  RedisExpire(RedisSet(db, Key(s.agent_id), ModelDumpJson(s)),
              Key(s.agent_id), TTL_SECONDS)

LoadCheckpointOp(db, agent_id) ==
  LET data == RedisGet(db, Key(agent_id))
  IN  IF data = Nil THEN Nil ELSE ModelValidateJson(data)

ResumeFromStepOp(db, agent_id, step) ==
  LET state == LoadCheckpointOp(db, agent_id)
  IN  IF state # Nil THEN [state EXCEPT !.current_step = step] ELSE state

\* The states a caller passes to save_checkpoint: one it built, or the one
\* the last load_checkpoint / resume_from_step handed back.
SaveArguments == InputStates \cup ({returned} \ {Nil})

NoSave == [state |-> Nil, by |-> Nobody, count |-> 0]

StoreInit ==
  /\ redis = [k \in Keys |-> Nil]
  /\ pc = [c \in Clients |-> [at |-> "idle", key |-> NoKey]]
  /\ returned = Nil
  /\ age = [k \in Keys |-> 0]
  /\ lastSave = NoSave

\* save_checkpoint, line 24-25: the value is written; the expiry is a second
\* command.
SaveCheckpointSet(c, s) ==
  /\ pc[c].at = "idle"
  /\ redis' = RedisSet(redis, Key(s.agent_id), ModelDumpJson(s))
  /\ pc' = [pc EXCEPT ![c] = [at |-> "expire", key |-> Key(s.agent_id)]]
  /\ age' = [age EXCEPT ![Key(s.agent_id)] = 0]
  /\ lastSave' = IF lastSave.state = s /\ lastSave.count >= 1
                 THEN [lastSave EXCEPT !.by = c]
                 ELSE [state |-> s, by |-> c, count |-> 0]
  /\ UNCHANGED returned
  /\ UNCHANGED <<execVars, agentVars>>

\* save_checkpoint, line 26
SaveCheckpointExpire(c) ==
  /\ pc[c].at = "expire"
  /\ redis' = RedisExpire(redis, pc[c].key, TTL_SECONDS)
  /\ pc' = [pc EXCEPT ![c] = [at |-> "idle", key |-> NoKey]]
  /\ lastSave' = IF lastSave.by = c /\ lastSave.count < 2
                 THEN [lastSave EXCEPT !.count = @ + 1]
                 ELSE lastSave
  /\ UNCHANGED <<returned, age>>
  /\ UNCHANGED <<execVars, agentVars>>

\* The process running save_checkpoint dies between the two commands.
SaveCheckpointCrash(c) ==
  /\ pc[c].at = "expire"
  /\ pc' = [pc EXCEPT ![c] = [at |-> "idle", key |-> NoKey]]
  /\ lastSave' = IF lastSave.by = c THEN NoSave ELSE lastSave
  /\ UNCHANGED <<redis, returned, age>>
  /\ UNCHANGED <<execVars, agentVars>>

LoadCheckpoint(c, agent_id) ==
  /\ pc[c].at = "idle"
  /\ returned' = LoadCheckpointOp(redis, agent_id)
  /\ UNCHANGED <<redis, pc, age, lastSave>>
  /\ UNCHANGED <<execVars, agentVars>>

ResumeFromStep(c, agent_id, step) ==
  /\ pc[c].at = "idle"
  /\ returned' = ResumeFromStepOp(redis, agent_id, step)
  /\ UNCHANGED <<redis, pc, age, lastSave>>
  /\ UNCHANGED <<execVars, agentVars>>

\* Redis' clock: TickSeconds pass; a key whose expiry is reached is deleted.
Expired(e) == e # Nil /\ e.ttl # NoExpiry /\ e.ttl <= TickSeconds

Tick ==
  /\ redis' = [k \in Keys |->
                 IF redis[k] = Nil \/ Expired(redis[k]) THEN Nil
                 ELSE IF redis[k].ttl = NoExpiry THEN redis[k]
                 ELSE [redis[k] EXCEPT !.ttl = @ - TickSeconds]]
  /\ age' = [k \in Keys |->
               IF age[k] + TickSeconds >= TTL_SECONDS THEN TTL_SECONDS
               ELSE age[k] + TickSeconds]
  /\ redis' # redis \/ age' # age
  /\ lastSave' = IF \E k \in Keys : Expired(redis[k]) THEN NoSave ELSE lastSave
  /\ UNCHANGED <<pc, returned>>
  /\ UNCHANGED <<execVars, agentVars>>

StoreNext ==
  \/ \E c \in Clients : \E s \in SaveArguments : SaveCheckpointSet(c, s)
  \/ \E c \in Clients : SaveCheckpointExpire(c)
  \/ \E c \in Clients : SaveCheckpointCrash(c)
  \/ \E c \in Clients : \E a \in AgentIds : LoadCheckpoint(c, a)
  \/ \E c \in Clients : \E a \in AgentIds : \E step \in 0..MaxSteps :
       ResumeFromStep(c, a, step)
  \/ Tick

(***************************************************************************)
(* execution/tools.py                                                      *)
(***************************************************************************)
TIMEOUT == 30
MaxOverrun == 2

Outcomes == {"return", "raise"}

\* What the collaborators of one execute() call do: the contract's validate
\* and validate_output and the tool's call each return or raise, and the
\* tool's call does or does not stop when it is cancelled.
ExecInputs ==
  [validate : Outcomes, call : Outcomes, stops_on_cancel : BOOLEAN,
   validate_output : Outcomes]

NoInput ==
  [validate |-> "return", call |-> "return", stops_on_cancel |-> TRUE,
   validate_output |-> "return"]

\* ExecutionResult.failure(msg)
Failure(msg) == [status |-> "error", msg |-> msg]

\* The dict of step 4.
StructuredResult == [tool |-> "tool", input |-> "params", output |-> "result"]

NoResult == [none |-> TRUE]

ExecInit ==
  /\ exPc = "idle"
  /\ exIn = NoInput
  /\ elapsed = 0
  /\ exResult = NoResult
  /\ timedOut = FALSE

\* Steps 3 and 4 of execute, run with the value the call produced:
\* validate_output is called outside any try block.
ValidateOutputAndReturn(in) ==
  IF in.validate_output = "raise"
  THEN exPc' = "raised" /\ exResult' = NoResult
  ELSE exPc' = "done" /\ exResult' = StructuredResult

\* Step 1 of execute, up to the await of the tool's call.
ExecuteValidate(in) ==
  /\ exPc = "idle"
  /\ exIn' = in
  /\ elapsed' = 0
  /\ timedOut' = FALSE
  /\ IF in.validate = "raise"
     THEN exPc' = "done" /\ exResult' = Failure("Contract violation: invalid")
     ELSE exPc' = "calling" /\ exResult' = NoResult
  /\ UNCHANGED <<storeVars, agentVars>>

\* One second passes while the tool's call is awaited.
ToolTick ==
  /\ exPc = "calling"
  /\ elapsed < TIMEOUT
  /\ elapsed' = elapsed + 1
  /\ UNCHANGED <<exPc, exIn, exResult, timedOut>>
  /\ UNCHANGED <<storeVars, agentVars>>

\* The tool's call ends before the timeout.
ToolCompletes ==
  /\ exPc = "calling"
  /\ elapsed < TIMEOUT
  /\ IF exIn.call = "raise"
     THEN exPc' = "done" /\ exResult' = Failure("boom")
     ELSE ValidateOutputAndReturn(exIn)
  /\ UNCHANGED <<exIn, elapsed, timedOut>>
  /\ UNCHANGED <<storeVars, agentVars>>

\* asyncio.wait_for at the timeout: the call is cancelled and wait_for awaits
\* the cancelled task; a task that ends cancelled becomes TimeoutError.
WaitForTimeout ==
  /\ exPc = "calling"
  /\ elapsed = TIMEOUT
  /\ timedOut' = TRUE
  /\ IF exIn.stops_on_cancel
     THEN exPc' = "done" /\ exResult' = Failure("timeout")
     ELSE exPc' = "cancelling" /\ exResult' = NoResult
  /\ UNCHANGED <<exIn, elapsed>>
  /\ UNCHANGED <<storeVars, agentVars>>

\* The cancelled call keeps running; wait_for keeps awaiting it.
CancelTick ==
  /\ exPc = "cancelling"
  /\ elapsed < TIMEOUT + MaxOverrun
  /\ elapsed' = elapsed + 1
  /\ UNCHANGED <<exPc, exIn, exResult, timedOut>>
  /\ UNCHANGED <<storeVars, agentVars>>

\* The cancelled call ends on its own terms: wait_for hands its result, or
\* its exception, to execute.
CancelledToolCompletes ==
  /\ exPc = "cancelling"
  /\ elapsed > TIMEOUT
  /\ IF exIn.call = "raise"
     THEN exPc' = "done" /\ exResult' = Failure("boom")
     ELSE ValidateOutputAndReturn(exIn)
  /\ UNCHANGED <<exIn, elapsed, timedOut>>
  /\ UNCHANGED <<storeVars, agentVars>>

ExecNext ==
  \/ \E in \in ExecInputs : ExecuteValidate(in)
  \/ ToolTick
  \/ ToolCompletes
  \/ WaitForTimeout
  \/ CancelTick
  \/ CancelledToolCompletes

(***************************************************************************)
(* observability/trace_handler.py and collaboration/human_collab.py        *)
(***************************************************************************)
PlanStep(b) == [tool |-> "tool", requires_approval |-> b]

\* The plans create_plan may hand back: up to MaxPlanLen steps, each gated by
\* an approval or not.
Plans ==
  UNION {[1..n -> {PlanStep(b) : b \in BOOLEAN}] : n \in 0..MaxPlanLen}

\* What self.execute_step(step) does: returns a success or a failure result,
\* or raises.
StepOutcomes == {"success", "failure", "raise"}

Modifications == {"none", "mods"}
UnknownId == 0

AgentInit ==
  /\ loopPc = "idle"
  /\ plan = <<>>
  /\ executed = <<>>
  /\ traceStatus = "none"
  /\ issued = <<>>
  /\ nextId = 1
  /\ tasks = <<>>
  /\ responses = <<>>

\* run_observable up to the execution loop: context, then plan.
RunObservablePlan(p) ==
  /\ loopPc = "idle"
  /\ plan' = p
  /\ loopPc' = "executing"
  /\ UNCHANGED <<executed, traceStatus, issued, nextId, tasks, responses>>
  /\ UNCHANGED <<storeVars, execVars>>

\* One iteration of the execution loop: step i is executed, whatever its
\* requires_approval and whatever the earlier results were.
ExecuteStep(outcome) ==
  /\ loopPc = "executing"
  /\ Len(executed) < Len(plan)
  /\ IF outcome = "raise"
     THEN loopPc' = "raised" /\ UNCHANGED executed
     ELSE /\ executed' = Append(executed,
                                [step_index |-> Len(executed), status |-> outcome])
          /\ UNCHANGED loopPc
  /\ UNCHANGED <<plan, traceStatus, issued, nextId, tasks, responses>>
  /\ UNCHANGED <<storeVars, execVars>>

\* After the loop: trace.update(output={"status": "complete"}).
TraceComplete ==
  /\ loopPc = "executing"
  /\ Len(executed) = Len(plan)
  /\ traceStatus' = "complete"
  /\ loopPc' = "complete"
  /\ UNCHANGED <<plan, executed, issued, nextId, tasks, responses>>
  /\ UNCHANGED <<storeVars, execVars>>

\* uuid.uuid4(): an id never handed out before.
Uuid4 == nextId

\* request_approval(plan, context, reason): reason names the gated step.
RequestApproval(step) ==
  /\ Len(issued) < MaxApprovals
  /\ issued' = Append(issued, [status |-> "pending", id |-> Uuid4,
                               plan |-> plan, reason |-> step])
  /\ nextId' = nextId + 1
  /\ UNCHANGED <<loopPc, plan, executed, traceStatus, tasks, responses>>
  /\ UNCHANGED <<storeVars, execVars>>

IssuedIds == {issued[j].id : j \in 1..Len(issued)}

\* POST /approve/{approval_id}
ApproveStep(approval_id, modifications) ==
  /\ Len(tasks) < MaxDecisions
  /\ tasks' = Append(tasks, [name |-> "resume_agent",
                             args |-> <<approval_id, TRUE, modifications>>])
  /\ responses' = Append(responses,
                         [approval_id |-> approval_id, status |-> "approved"])
  /\ UNCHANGED <<loopPc, plan, executed, traceStatus, issued, nextId>>
  /\ UNCHANGED <<storeVars, execVars>>

AgentNext ==
  \/ \E p \in Plans : RunObservablePlan(p)
  \/ \E o \in StepOutcomes : ExecuteStep(o)
  \/ TraceComplete
  \/ \E step \in 0..(Len(plan) - 1) : RequestApproval(step)
  \/ \E id \in IssuedIds \cup {UnknownId} : \E m \in Modifications :
       ApproveStep(id, m)

(***************************************************************************)
(* Specifications                                                          *)
(***************************************************************************)
Init == StoreInit /\ ExecInit /\ AgentInit

SpecStore == Init /\ [][StoreNext]_vars
SpecExec == Init /\ [][ExecNext]_vars
SpecAgent == Init /\ [][AgentNext]_vars

(***************************************************************************)
(* Properties                                                              *)
(***************************************************************************)
Consistent(s) ==
  /\ s.current_step = Len(s.executed_steps)
  /\ \A j \in 1..Len(s.executed_steps) : s.executed_steps[j].step_index = j - 1

Stored(a) == LoadCheckpointOp(redis, a)

\* C1: every run state that is stored in the checkpoint store or returned to
\* a caller has current_step = len(executed_steps) and history[i].step_index
\* = i for every i.
C1_CheckpointsConsistent ==
  /\ returned # Nil => Consistent(returned)
  /\ \A a \in AgentIds : Stored(a) # Nil => Consistent(Stored(a))

TasksFor(id) == {j \in 1..Len(tasks) : tasks[j].args[1] = id}

\* C2: per approval id at most one resume_agent task is dispatched, and every
\* decision call after the first for that id is answered already_resolved.
C2_SingleDecision ==
  \A id \in IssuedIds :
    /\ Cardinality(TasksFor(id)) <= 1
    /\ \A j \in 1..Len(responses) :
         (responses[j].approval_id = id
            /\ \E k \in 1..(j - 1) : responses[k].approval_id = id)
         => responses[j].status = "already_resolved"

IsFailure(r) == "status" \in DOMAIN r

ReasonOf(r) ==
  IF r.msg = "timeout" THEN "timeout"
  ELSE IF r.msg = "Contract violation: invalid" THEN "contract_violation"
  ELSE "tool_error"

\* C3: execute never lets a fault escape: no exception propagates to the
\* caller, every returned value is the success result or a failure with one
\* of the three reasons, and a raising validate_output is reported as a
\* contract violation.
C3_NoUntypedFault ==
  /\ exPc # "raised"
  /\ exPc = "done" =>
       \/ exResult = StructuredResult /\ exIn.validate_output = "return"
       \/ /\ IsFailure(exResult)
          /\ ReasonOf(exResult) \in {"contract_violation", "timeout", "tool_error"}

\* C4: a call still running when the timeout elapses always ends in a
\* failure with reason timeout, and execute is never still awaiting the call
\* past the timeout.
C4_TimeoutAlwaysFails ==
  /\ exPc \in {"calling", "cancelling"} => elapsed <= TIMEOUT
  /\ (timedOut /\ exPc \in {"done", "raised"}) => exResult = Failure("timeout")

\* C5: once 24 hours have passed since the last write of a run's checkpoint,
\* load_checkpoint returns None, whether or not the writer reached its expire.
C5_ExpiredAfter24h ==
  \A a \in AgentIds : age[Key(a)] >= TTL_SECONDS => Stored(a) = Nil

\* C6: the stored current_step of a run never decreases.
C6_StoredStepNeverDecreases ==
  [][\A a \in AgentIds :
       (Stored(a) # Nil /\ Stored(a)' # Nil)
       => Stored(a)'.current_step >= Stored(a).current_step]_vars

\* C7: a step with requires_approval is executed only after an approval
\* request was issued for it and the approve endpoint was called for that
\* request.
C7_ApprovalBeforeExecution ==
  \A j \in 1..Len(executed) :
    plan[j].requires_approval =>
      \E r \in 1..Len(issued) :
        /\ issued[r].reason = j - 1
        /\ \E t \in 1..Len(tasks) :
             tasks[t].args[1] = issued[r].id /\ tasks[t].args[2] = TRUE

\* C8: after a failure result no later step is executed and the run is not
\* reported complete.
C8_FailureStopsRun ==
  \A j \in 1..Len(executed) :
    executed[j].status = "failure" =>
      j = Len(executed) /\ traceStatus # "complete"

\* C9: no two approval requests with different ids exist for the same step
\* of the same plan.
C9_OneRequestPerStep ==
  \A j, k \in 1..Len(issued) :
    (issued[j].plan = issued[k].plan /\ issued[j].reason = issued[k].reason)
    => issued[j].id = issued[k].id

\* C10: saving the same state twice leaves the store as saving it once does,
\* and load_checkpoint returns that state after the first and after the
\* second save.
C10_SaveIdempotent ==
  /\ \A s \in SaveArguments :
       LET once == SaveCheckpointOp(redis, s)
           twice == SaveCheckpointOp(once, s)
       IN  /\ twice = once
           /\ LoadCheckpointOp(once, s.agent_id) = s
           /\ LoadCheckpointOp(twice, s.agent_id) = s
  /\ lastSave.count >= 1 => Stored(lastSave.state.agent_id) = lastSave.state

\* Two completed saves of the same state in a row, the second one refreshed
\* the expiry, and the state is not the empty run.
C10_Witness ==
  /\ lastSave.count = 2
  /\ lastSave.state.current_step > 0
  /\ redis[Key(lastSave.state.agent_id)] =
       [value |-> ModelDumpJson(lastSave.state), ttl |-> TTL_SECONDS]
  /\ \A c \in Clients : pc[c].at = "idle"

====
